---- MODULE Spec2Model ----
(***************************************************************************)
(* Model of ai_moderator.py: a keyword filter built on Python's re module  *)
(* (contains_banned_keyword, redact_banned_keywords) and the linear CLI    *)
(* flow of main() around one chat-completion request.                      *)
(*                                                                         *)
(* A text is a sequence of one-character strings.  The regular expression  *)
(* is modelled by what re does with the pattern the code builds: the       *)
(* escapes of the pattern source are parsed into atoms, and the atoms are  *)
(* matched against the text under re.IGNORECASE.                           *)
(***************************************************************************)
EXTENDS Integers, Sequences, FiniteSets, TLC

\* ------------------------------------------------------------------------
\* Bounds of the model
\* ------------------------------------------------------------------------
MaxPieces == 6        \* pieces per text handed to the two filter functions
MaxLinePieces == 3    \* pieces per line typed on standard input
MaxReplyPieces == 3   \* pieces per reply text returned by the remote service

\* ------------------------------------------------------------------------
\* Characters
\* ------------------------------------------------------------------------
LowerLetters ==
  << "a","b","c","d","e","f","g","h","i","j","k","l","m",
     "n","o","p","q","r","s","t","u","v","w","x","y","z" >>

UpperLetters ==
  << "A","B","C","D","E","F","G","H","I","J","K","L","M",
     "N","O","P","Q","R","S","T","U","V","W","X","Y","Z" >>

DigitChars == {"0","1","2","3","4","5","6","7","8","9"}

Range(s) == { s[i] : i \in DOMAIN s }

\* the case folding re.IGNORECASE applies to an ASCII character
Lower(c) ==
  IF \E i \in DOMAIN UpperLetters : UpperLetters[i] = c
  THEN LowerLetters[CHOOSE i \in DOMAIN UpperLetters : UpperLetters[i] = c]
  ELSE c

\* \w of re: letters, digits and the underscore
IsWordChar(c) ==
  c \in Range(LowerLetters) \cup Range(UpperLetters) \cup DigitChars \cup {"_"}

\* the characters str.strip() removes
Whitespace == {" ", "\t", "\n", "\r"}

RECURSIVE Concat(_)
Concat(ss) == IF ss = << >> THEN << >> ELSE Head(ss) \o Concat(Tail(ss))

\* ------------------------------------------------------------------------
\* Configuration (module level of ai_moderator.py)
\* ------------------------------------------------------------------------
BANNED_KEYWORDS ==
  << <<"k","i","l","l">>, <<"h","a","c","k">>, <<"b","o","m","b">> >>

\* the string "[REDACTED]" returned by _replace
REDACTED == <<"[","R","E","D","A","C","T","E","D","]">>

\* the characters of the raw string r"\\b" that opens and closes the pattern
BOUNDARY_SOURCE == <<"\\","\\","b">>

\* ------------------------------------------------------------------------
\* The regular expression
\* ------------------------------------------------------------------------
\* characters re.escape puts a backslash in front of
SpecialChars ==
  {"(",")","[","]","{","}","?","*","+","-","|","^","$","\\",".","&","~","#"}
    \cup Whitespace

RECURSIVE re_escape(_)
re_escape(k) ==
  IF k = << >> THEN << >>
  ELSE (IF Head(k) \in SpecialChars THEN <<"\\", Head(k)>> ELSE <<Head(k)>>)
         \o re_escape(Tail(k))

Lit(c) == [kind |-> "lit", c |-> c]
WordBoundary == [kind |-> "boundary", c |-> ""]

\* what re's parser makes of a stretch of pattern source: a backslash
\* followed by a backslash (or another non-alphanumeric) is that literal
\* character, a backslash followed by b is the word-boundary assertion,
\* any other character stands for itself
RECURSIVE ParseAtoms(_)
ParseAtoms(p) ==
  IF p = << >> THEN << >>
  ELSE IF Head(p) = "\\" /\ Len(p) >= 2
       THEN (IF p[2] = "b" THEN <<WordBoundary>> ELSE <<Lit(p[2])>>)
              \o ParseAtoms(Tail(Tail(p)))
       ELSE <<Lit(Head(p))>> \o ParseAtoms(Tail(p))

\* the pattern  r"\\b(" + "|".join(re.escape(k) ...) + r")\\b"  compiled:
\* atoms before the group, the alternatives of the group, atoms after it
Pattern ==
  [ pre  |-> ParseAtoms(BOUNDARY_SOURCE),
    alts |-> [ i \in DOMAIN BANNED_KEYWORDS |->
                 ParseAtoms(re_escape(BANNED_KEYWORDS[i])) ],
    post |-> ParseAtoms(BOUNDARY_SOURCE) ]

\* \b at position i (between text[i-1] and text[i], positions from 1)
AtBoundary(text, i) ==
  LET before == i > 1 /\ i - 1 <= Len(text) /\ IsWordChar(text[i - 1])
      after  == i >= 1 /\ i <= Len(text) /\ IsWordChar(text[i])
  IN  before # after

\* position after matching the atoms from position i on, 0 when they do not
\* match there (flags=re.IGNORECASE: characters compare after case folding)
RECURSIVE MatchAtoms(_, _, _)
MatchAtoms(atoms, text, i) ==
  IF atoms = << >> THEN i
  ELSE IF Head(atoms).kind = "boundary"
       THEN IF AtBoundary(text, i) THEN MatchAtoms(Tail(atoms), text, i) ELSE 0
       ELSE IF i <= Len(text) /\ Lower(text[i]) = Lower(Head(atoms).c)
            THEN MatchAtoms(Tail(atoms), text, i + 1)
            ELSE 0

\* the end of the match of one alternative followed by the rest
MatchAlt(pat, a, text, i) ==
  LET j == MatchAtoms(pat.pre, text, i)
      k == IF j = 0 THEN 0 ELSE MatchAtoms(pat.alts[a], text, j)
  IN  IF k = 0 THEN 0 ELSE MatchAtoms(pat.post, text, k)

\* the position after the match that starts at i, 0 when none starts there;
\* the alternatives are tried in the order they are written
MatchAt(pat, text, i) ==
  IF \E a \in DOMAIN pat.alts : MatchAlt(pat, a, text, i) # 0
  THEN LET a == CHOOSE a \in DOMAIN pat.alts :
                  /\ MatchAlt(pat, a, text, i) # 0
                  /\ \A b \in DOMAIN pat.alts :
                       b < a => MatchAlt(pat, b, text, i) = 0
       IN  MatchAlt(pat, a, text, i)
  ELSE 0

\* re.search(pattern, text) is not None
re_search(pat, text) ==
  \E i \in 1 .. Len(text) + 1 : MatchAt(pat, text, i) # 0

\* re.sub(pattern, repl, text): scan from the left, replace each match and
\* resume after it, copy every character no match starts at
RECURSIVE SubFrom(_, _, _, _)
SubFrom(pat, repl, text, i) ==
  IF i > Len(text) THEN << >>
  ELSE LET e == MatchAt(pat, text, i)
       IN  IF e > i
           THEN repl \o SubFrom(pat, repl, text, e)
           ELSE <<text[i]>> \o SubFrom(pat, repl, text, i + 1)

re_sub(pat, repl, text) == SubFrom(pat, repl, text, 1)

\* ------------------------------------------------------------------------
\* Helpers of ai_moderator.py
\* ------------------------------------------------------------------------
contains_banned_keyword(text) == re_search(Pattern, text)

\* variant: only the first match is replaced (re.sub with count=1)
redact_first_match_only(text) ==
  IF \E i \in 1 .. Len(text) : MatchAt(Pattern, text, i) > i
  THEN LET i == CHOOSE i \in 1 .. Len(text) :
                  /\ MatchAt(Pattern, text, i) > i
                  /\ \A j \in 1 .. i - 1 : ~ (MatchAt(Pattern, text, j) > j)
       IN  SubSeq(text, 1, i - 1) \o REDACTED
             \o SubSeq(text, MatchAt(Pattern, text, i), Len(text))
  ELSE text

redact_banned_keywords(text) == re_sub(Pattern, REDACTED, text)


\* ------------------------------------------------------------------------
\* Values that travel through main(): JSON values, None, exceptions
\* ------------------------------------------------------------------------
JNull == [t |-> "null", v |-> << >>]
JStr(s) == [t |-> "str", v |-> s]
JNum(n) == [t |-> "num", v |-> n]
JArr(s) == [t |-> "arr", v |-> s]
JObj(f) == [t |-> "obj", v |-> f]
Exc(name) == [t |-> "exc", v |-> name]

IsRaise(x) == x.t = "exc"

\* val[key] of Python for a string key
GetKey(val, key) ==
  IF IsRaise(val) THEN val
  ELSE IF val.t = "obj"
       THEN IF key \in DOMAIN val.v THEN val.v[key] ELSE Exc("KeyError")
       ELSE Exc("TypeError")

\* val[n] of Python for an integer n >= 0
GetIndex(val, n) ==
  IF IsRaise(val) THEN val
  ELSE IF val.t = "arr"
       THEN IF n < Len(val.v) THEN val.v[n + 1] ELSE Exc("IndexError")
       ELSE IF val.t = "str"
            THEN IF n < Len(val.v) THEN JStr(<<val.v[n + 1]>>)
                 ELSE Exc("IndexError")
            ELSE IF val.t = "obj" THEN Exc("KeyError") ELSE Exc("TypeError")

\* api_response["choices"][0]["message"]["content"]
ExtractContent(resp) ==
  GetKey(GetKey(GetIndex(GetKey(resp, "choices"), 0), "message"), "content")

\* variant: the check written as  "if OPENAI_API_KEY is None"
IsNotNone(val) == val.t # "null"

\* the truth value Python gives os.getenv's result in  "if not OPENAI_API_KEY"
Truthy(val) == val.t = "str" /\ val.v # << >>

RECURSIVE LStrip(_)
LStrip(s) ==
  IF s # << >> /\ Head(s) \in Whitespace THEN LStrip(Tail(s)) ELSE s

RECURSIVE RStrip(_)
RStrip(s) ==
  IF s # << >> /\ s[Len(s)] \in Whitespace
  THEN RStrip(SubSeq(s, 1, Len(s) - 1)) ELSE s

\* str.strip()
Strip(s) == RStrip(LStrip(s))

\* ------------------------------------------------------------------------
\* Inputs of the model
\* ------------------------------------------------------------------------
\* the stretches of characters the texts of the model are put together from
Pieces ==
  { <<"k","i","l","l">>, <<"H","a","C","k">>, <<"\\","b">>, <<" ">>,
    <<"e","r">> }

TextsOf(n) == { Concat(f) : f \in [1 .. n -> Pieces] }
TextsUpTo(n) == UNION { TextsOf(m) : m \in 0 .. n }

FilterTexts == TextsUpTo(MaxPieces)
Lines == TextsUpTo(MaxLinePieces)
Replies == TextsUpTo(MaxReplyPieces)

\* the values of the environment variable: unset, empty, set
KeyValues == { JNull, JStr(<< >>), JStr(<<"s","k">>) }

Message(content) == JObj([content |-> content])
Choice(message) == JObj([message |-> message])
Completion(choices) == JObj([choices |-> JArr(choices)])

\* bodies of a success response: the documented shape with a reply text,
\* and shapes that depart from it
WellFormedBodies == { Completion(<<Choice(Message(JStr(r)))>>) : r \in Replies }
OddBodies ==
  { Completion(<<Choice(Message(JNull))>>),
    Completion(<<Choice(Message(JNum(0)))>>),
    Completion(<<Choice(JObj([role |-> JStr(<<"a">>)]))>>),
    Completion(<<JObj([index |-> JNum(0)])>>),
    Completion(<< >>),
    JObj([error |-> JStr(<<"e">>)]),
    JObj([choices |-> JStr(<<"a">>)]),
    JArr(<< >>) }
Bodies == WellFormedBodies \cup OddBodies

\* what the body of an error response gives to e.response.json()
ErrorBodies == { JObj([error |-> JStr(<<"e">>)]), Exc("JSONDecodeError") }

\* ------------------------------------------------------------------------
\* State
\* ------------------------------------------------------------------------
VARIABLES
  key,             \* OPENAI_API_KEY as os.getenv returned it
  pc,              \* where the process is
  user_prompt,     \* main's user_prompt
  api_response,    \* main's api_response
  assistant_text,  \* main's assistant_text
  raised,          \* the exception call_chat_completion raised, with the
                   \* error response's body
  stdout,          \* what print (and input's prompt) wrote, in order
  httpRequests,    \* number of requests.post calls issued
  inputRead,       \* input() returned a line
  exitCode,        \* -1 while running, then the exit status
  uncaught,        \* the exception that ended the process, "none" otherwise
  text,            \* argument of the filter function under test
  found,           \* result of contains_banned_keyword(text)
  once,            \* redact_banned_keywords(text)
  twice,           \* redact_banned_keywords(once)
  fpc              \* position of the filter test

mainVars ==
  << key, pc, user_prompt, api_response, assistant_text, raised, stdout,
     httpRequests, inputRead, exitCode, uncaught >>
filterVars == << text, found, once, twice, fpc >>
vars == << mainVars, filterVars >>

\* ------------------------------------------------------------------------
\* Printed lines
\* ------------------------------------------------------------------------
Printed(msg, arg) == [msg |-> msg, arg |-> arg]
Line(msg) == Printed(msg, JNull)

MSG_NO_KEY == "ERROR: Please set OPENAI_API_KEY as an environment variable."
MSG_NO_KEY_HINT == "E.g., export OPENAI_API_KEY='sk-...'"
MSG_BANNER == "AI Moderator CLI"
MSG_ENTER == "Enter your prompt. Press Enter when done."
MSG_PROMPT == "> "
MSG_CANCELLED == "Cancelled."
MSG_NO_PROMPT == "No prompt provided. Exiting."
MSG_VIOLATION ==
  "Your input violated the moderation policy (banned keywords detected)."
MSG_API_FAILED == "API request failed:"
MSG_ERROR_BODY == "e.response.json()"
MSG_API_ERROR == "Error while calling API:"
MSG_UNEXPECTED == "Unexpected API response format:"
MSG_PAYLOAD == "json.dumps(api_response, indent=2)"
MSG_REDACTED ==
  "AI response contained disallowed content and has been redacted:"
MSG_RESPONSE == "AI response:"
MSG_TEXT == "text"

\* ------------------------------------------------------------------------
\* The process: module level, then main()
\* ------------------------------------------------------------------------
Idle == "idle"
NoValue == JNull

MainInit ==
  /\ key \in KeyValues
  /\ pc = "startup"
  /\ user_prompt = << >>
  /\ api_response = NoValue
  /\ assistant_text = NoValue
  /\ raised = [exc |-> NoValue, body |-> NoValue]
  /\ stdout = << >>
  /\ httpRequests = 0
  /\ inputRead = FALSE
  /\ exitCode = -1
  /\ uncaught = "none"

FilterIdle ==
  /\ text = << >>
  /\ found = FALSE
  /\ once = << >>
  /\ twice = << >>
  /\ fpc = Idle

Init == MainInit /\ FilterIdle

\* return from main() (or fall off its end): the interpreter exits with 0
Return(lines) ==
  /\ stdout' = stdout \o lines
  /\ pc' = "done"
  /\ exitCode' = 0

\* an exception nothing catches: traceback, exit status 1
Crash(name) ==
  /\ pc' = "crashed"
  /\ uncaught' = name
  /\ exitCode' = 1

\* lines 29-33 and 159-160: the credential check, then main()
Startup ==
  /\ pc = "startup"
  /\ IF ~ Truthy(key)
     THEN /\ stdout' = stdout \o << Line(MSG_NO_KEY), Line(MSG_NO_KEY_HINT) >>
          /\ pc' = "exited"
          /\ exitCode' = 1
     ELSE /\ pc' = "main"
          /\ UNCHANGED << stdout, exitCode >>
  /\ UNCHANGED << key, user_prompt, api_response, assistant_text, raised,
                  httpRequests, inputRead, uncaught >>
  /\ UNCHANGED filterVars

Banner == << Line(MSG_BANNER), Line(MSG_ENTER), Line(MSG_PROMPT) >>

\* lines 103-113: banner, input("> ").strip(), the empty-prompt exit
ReadLine ==
  /\ pc = "main"
  /\ \E line \in Lines :
       /\ user_prompt' = Strip(line)
       /\ inputRead' = TRUE
       /\ IF Strip(line) = << >>
          THEN Return(Banner \o << Line(MSG_NO_PROMPT) >>)
          ELSE /\ stdout' = stdout \o Banner
               /\ pc' = "moderate_input"
               /\ UNCHANGED exitCode
  /\ UNCHANGED << key, api_response, assistant_text, raised, httpRequests,
                  uncaught >>
  /\ UNCHANGED filterVars

\* lines 105-109: Ctrl-C while input() waits
ReadInterrupted ==
  /\ pc = "main"
  /\ Return(Banner \o << Line(MSG_CANCELLED) >>)
  /\ UNCHANGED << key, user_prompt, api_response, assistant_text, raised,
                  httpRequests, inputRead, uncaught >>
  /\ UNCHANGED filterVars

\* line 106: end of file on standard input, EOFError is not caught
ReadEOF ==
  /\ pc = "main"
  /\ stdout' = stdout \o Banner
  /\ Crash("EOFError")
  /\ UNCHANGED << key, user_prompt, api_response, assistant_text, raised,
                  httpRequests, inputRead >>
  /\ UNCHANGED filterVars

\* lines 115-118: input moderation
ModerateInput ==
  /\ pc = "moderate_input"
  /\ IF contains_banned_keyword(user_prompt)
     THEN Return(<< Line(MSG_VIOLATION) >>)
     ELSE /\ pc' = "call"
          /\ UNCHANGED << stdout, exitCode >>
  /\ UNCHANGED << key, user_prompt, api_response, assistant_text, raised,
                  httpRequests, inputRead, uncaught >>
  /\ UNCHANGED filterVars

\* lines 81-98 and 125-126: one requests.post; it raises (connection error,
\* timeout), raise_for_status raises HTTPError, resp.json() raises, or the
\* parsed body is returned
CallChatCompletion ==
  /\ pc = "call"
  /\ httpRequests' = httpRequests + 1
  /\ \/ /\ raised' = [exc |-> Exc("RequestException"), body |-> NoValue]
        /\ pc' = "except_exception"
        /\ UNCHANGED api_response
     \/ /\ \E b \in ErrorBodies :
             raised' = [exc |-> Exc("HTTPError"), body |-> b]
        /\ pc' = "except_http_error"
        /\ UNCHANGED api_response
     \/ /\ raised' = [exc |-> Exc("JSONDecodeError"), body |-> NoValue]
        /\ pc' = "except_exception"
        /\ UNCHANGED api_response
     \/ /\ \E b \in Bodies : api_response' = b
        /\ pc' = "parse"
        /\ UNCHANGED raised
  /\ UNCHANGED << key, user_prompt, assistant_text, stdout, inputRead,
                  exitCode, uncaught >>
  /\ UNCHANGED filterVars

\* lines 127-134: except requests.HTTPError
ExceptHTTPError ==
  /\ pc = "except_http_error"
  /\ Return(<< Printed(MSG_API_FAILED, raised.exc) >>
              \o (IF IsRaise(raised.body) THEN << >>
                  ELSE << Printed(MSG_ERROR_BODY, raised.body) >>))
  /\ UNCHANGED << key, user_prompt, api_response, assistant_text, raised,
                  httpRequests, inputRead, uncaught >>
  /\ UNCHANGED filterVars

\* variant: the handler prints the error and tries the request again
ExceptExceptionRetry ==
  /\ pc = "except_exception"
  /\ stdout' = stdout \o << Printed(MSG_API_ERROR, raised.exc) >>
  /\ pc' = "call"
  /\ UNCHANGED << key, user_prompt, api_response, assistant_text, raised,
                  httpRequests, inputRead, exitCode, uncaught >>
  /\ UNCHANGED filterVars

\* lines 135-137: except Exception
ExceptException ==
  /\ pc = "except_exception"
  /\ Return(<< Printed(MSG_API_ERROR, raised.exc) >>)
  /\ UNCHANGED << key, user_prompt, api_response, assistant_text, raised,
                  httpRequests, inputRead, uncaught >>
  /\ UNCHANGED filterVars

\* lines 139-145: pick the assistant text out of the response
ParseResponse ==
  /\ pc = "parse"
  /\ LET content == ExtractContent(api_response)
     IN  IF IsRaise(content)
         THEN /\ Return(<< Line(MSG_UNEXPECTED),
                           Printed(MSG_PAYLOAD, api_response) >>)
              /\ UNCHANGED assistant_text
         ELSE /\ assistant_text' = content
              /\ pc' = "moderate_output"
              /\ UNCHANGED << stdout, exitCode >>
  /\ UNCHANGED << key, user_prompt, api_response, raised, httpRequests,
                  inputRead, uncaught >>
  /\ UNCHANGED filterVars

\* lines 147-156: output moderation; re.search raises TypeError when its
\* argument is not a string, and nothing catches it
ModerateOutput ==
  /\ pc = "moderate_output"
  /\ IF assistant_text.t # "str"
     THEN /\ Crash("TypeError")
          /\ UNCHANGED stdout
     ELSE /\ uncaught' = uncaught
          /\ IF contains_banned_keyword(assistant_text.v)
             THEN Return(<< Line(MSG_REDACTED),
                            Printed(MSG_TEXT,
                              JStr(redact_banned_keywords(assistant_text.v))) >>)
             ELSE Return(<< Line(MSG_RESPONSE),
                            Printed(MSG_TEXT, assistant_text) >>)
  /\ UNCHANGED << key, user_prompt, api_response, assistant_text, raised,
                  httpRequests, inputRead >>
  /\ UNCHANGED filterVars

Next ==
  \/ Startup
  \/ ReadLine
  \/ ReadInterrupted
  \/ ReadEOF
  \/ ModerateInput
  \/ CallChatCompletion
  \/ ExceptHTTPError
  \/ ExceptException
  \/ ParseResponse
  \/ ModerateOutput

Spec == Init /\ [][Next]_vars

\* ------------------------------------------------------------------------
\* The two filter functions applied to every text of FilterTexts
\* ------------------------------------------------------------------------
MainIdle ==
  /\ key = JStr(<<"s","k">>)
  /\ pc = Idle
  /\ user_prompt = << >>
  /\ api_response = NoValue
  /\ assistant_text = NoValue
  /\ raised = [exc |-> NoValue, body |-> NoValue]
  /\ stdout = << >>
  /\ httpRequests = 0
  /\ inputRead = FALSE
  /\ exitCode = -1
  /\ uncaught = "none"

FilterInit ==
  /\ MainIdle
  /\ text \in FilterTexts
  /\ found = FALSE
  /\ once = << >>
  /\ twice = << >>
  /\ fpc = "start"

CallContains ==
  /\ fpc = "start"
  /\ found' = contains_banned_keyword(text)
  /\ fpc' = "searched"
  /\ UNCHANGED << text, once, twice >>
  /\ UNCHANGED mainVars

CallRedact ==
  /\ fpc = "searched"
  /\ once' = redact_banned_keywords(text)
  /\ fpc' = "redacted"
  /\ UNCHANGED << text, found, twice >>
  /\ UNCHANGED mainVars

CallRedactAgain ==
  /\ fpc = "redacted"
  /\ twice' = redact_banned_keywords(once)
  /\ fpc' = "twice"
  /\ UNCHANGED << text, found, once >>
  /\ UNCHANGED mainVars

FilterNext ==
  \/ CallContains
  \/ CallRedact
  \/ CallRedactAgain

FilterSpec == FilterInit /\ [][FilterNext]_vars

\* ------------------------------------------------------------------------
\* Vocabulary of the properties
\* ------------------------------------------------------------------------
\* term occurs in t at position i, in any letter case
TermAt(t, i, term) ==
  /\ i + Len(term) - 1 <= Len(t)
  /\ \A j \in 1 .. Len(term) : Lower(t[i + j - 1]) = Lower(term[j])

\* ... and no word character touches the occurrence on either side
StandaloneAt(t, i, term) ==
  /\ TermAt(t, i, term)
  /\ (i = 1 \/ ~ IsWordChar(t[i - 1]))
  /\ (i + Len(term) > Len(t) \/ ~ IsWordChar(t[i + Len(term)]))

Terms == Range(BANNED_KEYWORDS)

HasTerm(t) == \E i \in 1 .. Len(t) : \E term \in Terms : TermAt(t, i, term)

HasStandaloneTerm(t) ==
  \E i \in 1 .. Len(t) : \E term \in Terms : StandaloneAt(t, i, term)

\* banned terms occur in t, and every occurrence is part of a larger word
OnlyInsideWords(t) == HasTerm(t) /\ ~ HasStandaloneTerm(t)

\* t with every standalone occurrence of a term replaced by the marker
RECURSIVE StandaloneRedactedFrom(_, _)
StandaloneRedactedFrom(t, i) ==
  IF i > Len(t) THEN << >>
  ELSE IF \E term \in Terms : StandaloneAt(t, i, term)
       THEN LET term == CHOOSE term \in Terms : StandaloneAt(t, i, term)
            IN  REDACTED \o StandaloneRedactedFrom(t, i + Len(term))
       ELSE <<t[i]>> \o StandaloneRedactedFrom(t, i + 1)

StandaloneRedacted(t) == StandaloneRedactedFrom(t, 1)

Said(msg) == \E i \in DOMAIN stdout : stdout[i].msg = msg

LastPrinted(n) == SubSeq(stdout, Len(stdout) - n + 1, Len(stdout))

Terminated == pc \in {"done", "crashed", "exited"}

\* the first line of each of the four outcomes
RejectionHeads == {MSG_VIOLATION, MSG_NO_PROMPT}
ErrorHeads == {MSG_API_FAILED, MSG_API_ERROR, MSG_UNEXPECTED}
OutcomeHeads == RejectionHeads \cup ErrorHeads \cup {MSG_REDACTED, MSG_RESPONSE}
OutcomesPrinted ==
  Cardinality({ i \in DOMAIN stdout : stdout[i].msg \in OutcomeHeads })

RequestFailed == IsRaise(raised.exc)

\* the success body does not carry a string at choices[0].message.content
Malformed(resp) ==
  IsRaise(ExtractContent(resp)) \/ ExtractContent(resp).t # "str"

\* ------------------------------------------------------------------------
\* Properties
\* ------------------------------------------------------------------------
\* C1: when the stripped input line contains a banned term as a standalone
\* word, in any letter case, the run prints the moderation-violation message
\* and ends without issuing any HTTP request.
C1_BannedInputRejectedBeforeCall ==
  (inputRead /\ HasStandaloneTerm(user_prompt)) =>
     /\ httpRequests = 0
     /\ pc \in {"moderate_input", "done"}
     /\ (pc = "done" => LastPrinted(1) = << Line(MSG_VIOLATION) >>)

\* C2: contains_banned_keyword(text) is true for every text in which a
\* banned term occurs as a standalone whole word, in any letter case.
C2_StandaloneTermIsFound ==
  (fpc \in {"searched", "redacted", "twice"} /\ HasStandaloneTerm(text))
     => found

\* C3: contains_banned_keyword(text) is false for every text in which banned
\* terms occur only as part of a larger word.
C3_NoPartialWordMatch ==
  (fpc \in {"searched", "redacted", "twice"} /\ OnlyInsideWords(text))
     => ~ found

\* C4: redact_banned_keywords(text) is text with every standalone, any-case
\* occurrence of a banned term replaced by the marker and every other
\* character left in place; the result has no banned term as a whole word.
C4_RedactReplacesStandaloneTerms ==
  fpc \in {"redacted", "twice"} =>
     /\ once = StandaloneRedacted(text)
     /\ ~ HasStandaloneTerm(once)

\* C5: redaction is idempotent, redacting the redacted text gives the
\* redacted text again, and a text in which no banned term occurs is
\* returned as it is.
C5_RedactionIdempotent ==
  /\ fpc = "twice" => twice = once
  /\ (fpc \in {"redacted", "twice"} /\ ~ HasTerm(text)) => once = text

\* a text the redaction changed, leaving the letters of a term behind, has
\* been redacted a second time
C5_Witness ==
  fpc = "twice" /\ found /\ once # text /\ HasTerm(once)

\* C6: after a successful reply to a clean prompt, a reply text with a
\* banned term as a whole word is printed under the redacted label with each
\* such occurrence replaced by the marker, and never unredacted; a reply
\* text with no banned term is printed verbatim under the plain label.
C6_ReplyRedactedOrVerbatim ==
  (pc = "done" /\ assistant_text.t = "str") =>
     IF HasStandaloneTerm(assistant_text.v)
     THEN /\ LastPrinted(2) =
               << Line(MSG_REDACTED),
                  Printed(MSG_TEXT,
                          JStr(StandaloneRedacted(assistant_text.v))) >>
          /\ \A i \in DOMAIN stdout :
               stdout[i].msg = MSG_TEXT => stdout[i].arg # assistant_text
     ELSE ~ HasTerm(assistant_text.v) =>
            LastPrinted(2) =
              << Line(MSG_RESPONSE), Printed(MSG_TEXT, assistant_text) >>

\* C7: a run that has read a line of input prints, after the banner,
\* exactly one of the four outcomes and terminates normally.
C7_ExactlyOneOutcome ==
  (inputRead /\ Terminated) =>
     /\ pc = "done"
     /\ uncaught = "none"
     /\ SubSeq(stdout, 1, Len(Banner)) = Banner
     /\ OutcomesPrinted = 1

\* C8: with OPENAI_API_KEY absent or empty the process prints the
\* missing-credential error and exits with a non-zero status; main() is not
\* entered: no banner, no input read, no HTTP request.
C8_NoKeyNoAction ==
  key \in {JNull, JStr(<< >>)} =>
     /\ pc \in {"startup", "exited"}
     /\ httpRequests = 0
     /\ ~ inputRead
     /\ ~ Said(MSG_BANNER)
     /\ pc = "startup" => stdout = << >>
     /\ pc = "exited" =>
          /\ stdout = << Line(MSG_NO_KEY), Line(MSG_NO_KEY_HINT) >>
          /\ exitCode # 0 /\ exitCode # -1

\* the process has exited on an empty credential
C8_Witness == pc = "exited" /\ key = JStr(<< >>) /\ exitCode = 1

\* C9: at most one HTTP request is issued in a run, and after the request
\* failed the run prints the error and ends without another request.
C9_SingleAttempt ==
  /\ httpRequests <= 1
  /\ RequestFailed =>
       /\ httpRequests = 1
       /\ pc \in {"except_http_error", "except_exception", "done"}
       /\ pc = "done" =>
            /\ OutcomesPrinted = 1
            /\ Said(MSG_API_FAILED) \/ Said(MSG_API_ERROR)

\* a run has ended after its one request failed with an HTTP status
C9_Witness ==
  /\ pc = "done"
  /\ raised.exc = Exc("HTTPError")
  /\ httpRequests = 1
  /\ Said(MSG_API_FAILED)

\* C10: a success response whose body carries no text string at
\* choices[0].message.content makes the run print the unexpected-format
\* error with the raw payload and end, with no response text printed and no
\* unhandled exception.
C10_MalformedBodyReported ==
  (Terminated /\ api_response # NoValue /\ Malformed(api_response)) =>
     /\ pc = "done"
     /\ uncaught = "none"
     /\ LastPrinted(2) =
          << Line(MSG_UNEXPECTED), Printed(MSG_PAYLOAD, api_response) >>
     /\ ~ Said(MSG_TEXT)
     /\ ~ Said(MSG_API_FAILED) /\ ~ Said(MSG_API_ERROR)

====
